---- MODULE Spec2Model ----
(***************************************************************************)
(* The Execution Bridge of ultrahdr-browser: the worker of                 *)
(* src/ultrahdr-browser/src/worker.ts, as a state machine.                 *)
(*                                                                         *)
(* The worker is one JavaScript event loop.  A message handler and every   *)
(* continuation of an async function run to completion, so one action of   *)
(* this model is one such run: from the start of a task to the next await  *)
(* (or to the end of the job), the microtask of the .catch handler         *)
(* included.  A job is suspended at two places only: the fetch of the      *)
(* binary (worker.ts:107) and WebAssembly.instantiate (worker.ts:110).     *)
(*                                                                         *)
(* The ellipsis character of the status texts is written "...".            *)
(*                                                                         *)
(* The components of the CLI the worker runs (classifier, synthesizer,     *)
(* assembler) are pure functions; each has a specification of its own      *)
(* (ClassifySpec, SynthesizeSpec, AssembleSpec) in which the worker is     *)
(* idle and `call` holds the inputs and the results of one call.           *)
(***************************************************************************)
EXTENDS Integers, Sequences, FiniteSets, TLC

VARIABLES
    msgs,      \* number of messages delivered to self.onmessage so far
    jobs,      \* job id (the index of its message) -> the job's record
    fs,        \* rootDir: the Map objects made so far and which one is rootDir.contents
    events,    \* every message the worker posted, in order, tagged with its job
    call,      \* a call of one component of the CLI on its own: inputs and results
    ui         \* the page: the state of App.tsx and of its language provider

vars == <<msgs, jobs, fs, events, call, ui>>

\* ------------------------------------------------------------------ bounds
MaxJobs == 2      \* messages delivered to the worker

JobIds == 1..MaxJobs
MapIds == 0..MaxJobs   \* 0: the Map of worker.ts:11; j: the Map made by job j's resetFs

\* ------------------------------------------------------------ text constants
StatusPreparing == "Preparing WASI FS..."
StatusFetching == "Fetching wasm..."
\* the third status of a run that posts the second one again
StatusRunning_Repeat == "Fetching wasm..."
StatusRunning == "Running ultrahdr-bake..."
MsgNeedTwoJpeg == "Need exactly two JPEG inputs"
MsgNeedTwoMotion == "Need exactly two inputs (photo + video)"
MsgOutputMissing == "Output file missing"
\* what `req.files.length` throws when the request has no `files` member
MsgTypeError == "Cannot read properties of undefined (reading 'length')"
\* failures of the two awaited host calls
MsgFetchFailed == "Failed to fetch"
MsgInstantiateFailed == "WebAssembly.instantiate(): expected magic word"
MsgLongjmp == "longjmp called"

SAFE_BAKE_NAMES == <<"input1.jpg", "input2.jpg">>
SAFE_MOTION_NAMES == <<"motion1.bin", "motion2.bin">>
ProgramName == "ultrahdr-bake.wasm"

\* ------------------------------------------------------------------ helpers
Digit(d) == CASE d = 0 -> "0" [] d = 1 -> "1" [] d = 2 -> "2" [] d = 3 -> "3"
              [] d = 4 -> "4" [] d = 5 -> "5" [] d = 6 -> "6" [] d = 7 -> "7"
              [] d = 8 -> "8" [] d = 9 -> "9"

RECURSIVE NatToString(_)
NatToString(n) == IF n < 10 THEN Digit(n) ELSE NatToString(n \div 10) \o Digit(n % 10)

\* Number.prototype.toString of an integer
NumToString(n) == IF n < 0 THEN "-" \o NatToString(-n) ELSE NatToString(n)

\* the position of the first `word` in args from position i on, 0 if none
RECURSIVE IndexOf(_, _, _)
IndexOf(args, word, i) ==
    IF i > Len(args) THEN 0 ELSE IF args[i] = word THEN i ELSE IndexOf(args, word, i + 1)

EmptyDir == <<>>                     \* new Map()
Has(dir, path) == path \in DOMAIN dir
Put(dir, path, node) == (path :> node) @@ dir

\* ----------------------------------------------------------------- requests
\* Byte buffers a caller can send.  IsJpeg is what the image probe decides.
Buffers == {"jpegA", "jpegB", "junk", "mp4", "empty"}
IsJpeg(b) == b \in {"jpegA", "jpegB"}

NamedFile(n, b) == [name |-> n, buffer |-> b]

\* The `files` arrays a request can carry: one, two or three entries, with
\* names of the caller's choosing.
OneFile == <<NamedFile("a.jpg", "jpegA")>>
TwoJpegs == <<NamedFile("input2.jpg", "jpegA"), NamedFile("../b.jpg", "jpegB")>>
TwoNonJpegs == <<NamedFile("a.jpg", "junk"), NamedFile("out.jpg", "junk")>>
PhotoAndVideo == <<NamedFile("../b.jpg", "jpegA"), NamedFile("clip.mp4", "mp4")>>
NotAPhoto == <<NamedFile("a.png", "junk"), NamedFile("clip.mp4", "mp4")>>
NoVideo == <<NamedFile("a.jpg", "jpegA"), NamedFile("clip.mp4", "empty")>>
ThreeFiles ==
    <<NamedFile("a.jpg", "jpegA"), NamedFile("b.jpg", "jpegB"), NamedFile("c.jpg", "junk")>>
FileLists == {OneFile, TwoJpegs, TwoNonJpegs, PhotoAndVideo, ThreeFiles}

OutNames == {"out.jpg", "input1.jpg"}

\* opts of a request; an optional number is a sequence of length 0 or 1.
OptsOf(out) ==
    [outName |-> out, baseQ |-> 95, gainmapQ |-> 95, scale |-> 1,
     multichannel |-> FALSE, targetPeak |-> <<>>, timestampUs |-> <<>>]

\* A request as worker.ts reads it: type, files, opts.
FilesRequest(t, fl, out) ==
    [type |-> t, hasFiles |-> TRUE, files |-> fl, declared |-> <<>>, opts |-> OptsOf(out)]

\* A request of the declared shape (types/worker.ts:8-30, App.tsx:95-110 and
\* 124-135): the two buffers are the members hdr/sdr or photo/video, and
\* there is no `files` member.
DeclaredRequest(t, bufs, out) ==
    [type |-> t, hasFiles |-> FALSE, files |-> <<>>, declared |-> bufs, opts |-> OptsOf(out)]

OtherRequest ==
    [type |-> "other", hasFiles |-> FALSE, files |-> <<>>, declared |-> <<>>,
     opts |-> OptsOf("out.jpg")]

\* The requests of the model: for bake every file list but the photo/video
\* one, for motion the photo/video list and the one-file list; an output
\* name that is also a safe input name only with two good inputs.
Requests ==
    { r \in { FilesRequest(t, fl, out) :
                t \in {"bake", "motion"}, fl \in FileLists, out \in OutNames } :
        /\ r.type = "bake" => r.files # PhotoAndVideo
        /\ r.type = "motion" => r.files \in {PhotoAndVideo, OneFile}
        /\ r.opts.outName # "out.jpg" => r.files = TwoJpegs }
    \cup { DeclaredRequest("bake", <<"jpegA", "jpegB">>, "out.jpg"),
           DeclaredRequest("motion", <<"jpegA", "mp4">>, "out.jpg"),
           OtherRequest }

\* --------------------------------------------------------- virtual filesystem
\* rootDir (worker.ts:11) is one Directory object whose `contents` member is
\* re-bound to a new Map by every resetFs.  fs.maps holds the Map objects by
\* identity and fs.root says which of them rootDir.contents is now.  A file
\* node is its bytes plus who wrote it (`by`, `job`: bookkeeping of the model,
\* the identity of the write).
Node(bytes, by, j) == [data |-> bytes, by |-> by, job |-> j]

\* resetFs of a run that does not clear: rootDir.contents is left as it is
resetFs_NoClear(f, j) == [root |-> j, maps |-> [f.maps EXCEPT ![j] = f.maps[f.root]]]

\* resetFs (worker.ts:13-15): rootDir.contents = new Map(); job j's Map is Map j
resetFs(f, j) == [root |-> j, maps |-> [f.maps EXCEPT ![j] = EmptyDir]]

\* writeFile (worker.ts:17-19): set on the Map that is rootDir.contents now
writeFile(f, path, node) == [f EXCEPT !.maps[f.root] = Put(@, path, node)]

\* readFile (worker.ts:21-25): the entry of rootDir.contents, or null.
\* The result is a sequence: empty for null, else the one node.
readFile(f, path) ==
    IF Has(f.maps[f.root], path) THEN <<f.maps[f.root][path]>> ELSE <<>>

\* ------------------------------------------------------------------- events
\* emit (worker.ts:27-29): postMessage of one WorkerStatus, tagged here with
\* the job whose code posted it.
Event(j, t, p) == [job |-> j, type |-> t, payload |-> p]
StatusEvent(j, text) == Event(j, "status", text)

\* a catch handler that posts nothing
CatchHandler_Swallow(j, msg) == <<>>

\* the .catch handlers of self.onmessage (worker.ts:143-145, 147-149);
\* every message of this model is a non-empty string, so
\* `err.message || String(err)` is err.message
CatchHandler(j, msg) == <<Event(j, "error", msg)>>

\* the bytes of a buffer of this model; a JPEG begins with FF D8 and ends
\* with FF D9
BytesOf(data) ==
    CASE data = "jpegA" -> <<255, 216, 1, 255, 217>>
      [] data = "jpegB" -> <<255, 216, 2, 255, 217>>
      [] data = "junk" -> <<0>>
      [] data = "mp4" -> <<0, 0, 0, 24>>
      [] data = "empty" -> <<>>
      [] data = "uhdr" -> <<255, 216, 1, 2, 7, 255, 217>>
      [] data = "motionphoto" -> <<255, 216, 255, 225, 0, 2, 1, 255, 217, 0, 0, 0, 24>>

\* new Uint8Array(n) (worker.ts:129): n zero bytes in storage of its own
NewUint8Array(n) == [i \in 1..n |-> 0]

\* target.set(source) (worker.ts:130): the source's bytes over the target's
\* from its start
SetBytes(target, source) ==
    [i \in 1..Len(target) |-> IF i <= Len(source) THEN source[i] ELSE target[i]]

\* a done event whose buffer is the file's own storage instead of a copy
DoneEvent_Alias(j, outName, node) ==
    Event(j, "done", [fileName |-> outName, buffer |-> node,
                      bytes |-> BytesOf(node.data), shares |-> <<node.job, outName>>])

\* the done event of runCli (worker.ts:129-137): the file name and a copy of
\* the bytes read.  `bytes` is outCopy; `shares` names the file entry (Map and
\* path) whose storage the posted buffer is, and is empty for outCopy, which
\* is storage of its own; `buffer` keeps the node the bytes were read from
\* (bookkeeping of the model).
DoneEvent(j, outName, node) ==
    LET outBytes == BytesOf(node.data)
        outCopy == SetBytes(NewUint8Array(Len(outBytes)), outBytes)
    IN Event(j, "done", [fileName |-> outName, buffer |-> node,
                         bytes |-> outCopy, shares |-> <<>>])

\* ------------------------------------------------ runBake / runMotion, to runCli
\* the name under which input i is written, taken from the request
SafeName_FromRequest(req, i) == req.files[i].name

\* SAFE_BAKE_NAMES[i] / SAFE_MOTION_NAMES[i] (worker.ts:31-32, 42, 74)
SafeName(req, i) ==
    IF req.type = "bake" THEN SAFE_BAKE_NAMES[i] ELSE SAFE_MOTION_NAMES[i]

NeedTwoMessage(req) ==
    IF req.type = "bake" THEN MsgNeedTwoJpeg ELSE MsgNeedTwoMotion

\* the loop of worker.ts:40-43 / 72-75 over files = req.files.slice(0, 2)
RECURSIVE WriteInputs(_, _, _, _)
WriteInputs(f, req, j, i) ==
    IF i > 2 \/ i > Len(req.files) THEN f
    ELSE WriteInputs(writeFile(f, SafeName(req, i), Node(req.files[i].buffer, "bridge", j)),
                     req, j, i + 1)

\* an argument list that tests the target peak for truthiness and puts the
\* multichannel flag last
BakeArgs_Loose(req) ==
    <<ProgramName, "--out", req.opts.outName,
      "--base-q", NumToString(req.opts.baseQ),
      "--gm-q", NumToString(req.opts.gainmapQ),
      "--scale", NumToString(req.opts.scale)>>
    \o (IF req.opts.targetPeak # <<>> /\ req.opts.targetPeak # <<0>>
          THEN <<"--target-peak", NumToString(req.opts.targetPeak[1])>> ELSE <<>>)
    \o <<SafeName(req, 1), SafeName(req, 2)>>
    \o (IF req.opts.multichannel THEN <<"--multichannel">> ELSE <<>>)

\* the argument list of runBake (worker.ts:45-61)
BakeArgs(req) ==
    <<ProgramName, "--out", req.opts.outName,
      "--base-q", NumToString(req.opts.baseQ),
      "--gm-q", NumToString(req.opts.gainmapQ),
      "--scale", NumToString(req.opts.scale)>>
    \o (IF req.opts.multichannel THEN <<"--multichannel">> ELSE <<>>)
    \o (IF req.opts.targetPeak # <<>>
          THEN <<"--target-peak", NumToString(req.opts.targetPeak[1])>> ELSE <<>>)
    \o <<SafeName(req, 1), SafeName(req, 2)>>

\* an argument list that tests the timestamp for truthiness, so that 0 counts
\* as absent
MotionArgs_Truthy(req) ==
    <<ProgramName, "motion", "--out", req.opts.outName>>
    \o (IF req.opts.timestampUs # <<>> /\ req.opts.timestampUs # <<0>>
          THEN <<"--timestamp-us", NumToString(req.opts.timestampUs[1])>> ELSE <<>>)
    \o <<SafeName(req, 1), SafeName(req, 2)>>

\* the argument list of runMotion (worker.ts:77-81)
MotionArgs(req) ==
    <<ProgramName, "motion", "--out", req.opts.outName>>
    \o (IF req.opts.timestampUs # <<>>
          THEN <<"--timestamp-us", NumToString(req.opts.timestampUs[1])>> ELSE <<>>)
    \o <<SafeName(req, 1), SafeName(req, 2)>>

ArgsOf(req) == IF req.type = "bake" THEN BakeArgs(req) ELSE MotionArgs(req)

\* a length test that lets more than two files through
LengthCheck_AtLeastTwo(req) ==
    IF ~req.hasFiles THEN <<MsgTypeError>>
    ELSE IF Len(req.files) < 2 THEN <<NeedTwoMessage(req)>>
    ELSE <<>>

\* What the length test of worker.ts:37 / 69 throws, as a sequence: empty when
\* it passes.  `req.files` of a request without that member is undefined and
\* reading its length is a TypeError.
LengthCheck(req) ==
    IF ~req.hasFiles THEN <<MsgTypeError>>
    ELSE IF Len(req.files) # 2 THEN <<NeedTwoMessage(req)>>
    ELSE <<>>

\* ------------------------------------------------- the classifier of the CLI
\* classify (spec 4.2) works on the probe results of the two buffers.  An
\* input is a buffer and its probe result; the colour tags of a probe result
\* play no part in the decision and are left out.
RelativeThresholdPercent == 10
PeakLumas == {0, 100, 110, 111}
AverageLumas == {40, 60}
ProbeResults ==
    [hasEmbeddedGainMap : BOOLEAN, hasExtendedDynamicRangeTag : BOOLEAN,
     averageLuma : AverageLumas, peakLumaEstimate : PeakLumas]
Inputs(bytes) == [bytes : {bytes}, probe : ProbeResults]

CarriesMetadata(x) ==
    x.probe.hasEmbeddedGainMap \/ x.probe.hasExtendedDynamicRangeTag

\* a peak that counts as brighter however small the difference
MateriallyBrighter_Any(x, y) == x.probe.peakLumaEstimate > y.probe.peakLumaEstimate

\* x's peak is above y's by more than the relative threshold
MateriallyBrighter(x, y) ==
    x.probe.peakLumaEstimate * 100 >
        y.probe.peakLumaEstimate * (100 + RelativeThresholdPercent)

Pair(h, s) == [error |-> <<>>, pair |-> <<[hdr |-> h.bytes, sdr |-> s.bytes]>>]
Failure(kind) == [error |-> <<kind>>, pair |-> <<>>]

\* classify that lets its first argument win when nothing decides
classify_FirstOnTie(a, b) ==
    IF CarriesMetadata(a) # CarriesMetadata(b)
    THEN IF CarriesMetadata(a) THEN Pair(a, b) ELSE Pair(b, a)
    ELSE IF MateriallyBrighter(b, a) THEN Pair(b, a) ELSE Pair(a, b)

\* classify that compares the peaks before it looks at the metadata
classify_PeakFirst(a, b) ==
    IF MateriallyBrighter(a, b) THEN Pair(a, b)
    ELSE IF MateriallyBrighter(b, a) THEN Pair(b, a)
    ELSE IF CarriesMetadata(a) # CarriesMetadata(b)
    THEN IF CarriesMetadata(a) THEN Pair(a, b) ELSE Pair(b, a)
    ELSE Failure("AmbiguousOrdering")

\* classify that names the two buffers the wrong way round
classify_Swapped(a, b) ==
    IF CarriesMetadata(a) # CarriesMetadata(b)
    THEN IF CarriesMetadata(a) THEN Pair(b, a) ELSE Pair(a, b)
    ELSE IF MateriallyBrighter(a, b) THEN Pair(b, a)
    ELSE IF MateriallyBrighter(b, a) THEN Pair(a, b)
    ELSE Failure("AmbiguousOrdering")

\* the decision policy, in priority order: exactly one input carries
\* metadata; otherwise the materially brighter peak; otherwise
\* AmbiguousOrdering
classify(a, b) ==
    IF CarriesMetadata(a) # CarriesMetadata(b)
    THEN IF CarriesMetadata(a) THEN Pair(a, b) ELSE Pair(b, a)
    ELSE IF MateriallyBrighter(a, b) THEN Pair(a, b)
    ELSE IF MateriallyBrighter(b, a) THEN Pair(b, a)
    ELSE Failure("AmbiguousOrdering")

\* ------------------------------------------------ the synthesizer of the CLI
\* The CLI reads its options back from the argument list the bridge built.
ParseRange == 0..200
ParseNumber(str) == CHOOSE n \in ParseRange : NumToString(n) = str
OptionOf(args, flag) == ParseNumber(args[IndexOf(args, flag, 1) + 1])
ParsedBakeOptions(args) ==
    [baseQuality |-> OptionOf(args, "--base-q"),
     gainmapQuality |-> OptionOf(args, "--gm-q"),
     scale |-> OptionOf(args, "--scale")]

\* a validation that lets the values next to the range through
OptionsValid_Lenient(o) ==
    /\ o.baseQuality \in 0..101
    /\ o.gainmapQuality \in 0..101
    /\ o.scale >= 0

\* InvalidOptions if baseQuality/gainmapQuality fall outside 1..100 or
\* scale < 1 (spec 4.3)
OptionsValid(o) ==
    /\ o.baseQuality \in 1..100
    /\ o.gainmapQuality \in 1..100
    /\ o.scale >= 1

\* -------------------------------------------------- the assembler of the CLI
\* assemble (spec 4.4) on byte sequences.  A valid JPEG starts with the
\* start-of-image marker FF D8 and holds an end-of-image marker FF D9.
EoiStarts(photo) ==
    {i \in 3..(Len(photo) - 1) : photo[i] = 255 /\ photo[i + 1] = 217}
IsValidJpeg(photo) ==
    /\ Len(photo) >= 4
    /\ photo[1] = 255 /\ photo[2] = 216
    /\ EoiStarts(photo) # {}
\* the index of the last byte of the end-of-image marker
EoiEnd(photo) == (CHOOSE i \in EoiStarts(photo) : \A k \in EoiStarts(photo) : i <= k) + 1

\* the metadata segment written into the header: an APP1 marker and its length
XmpSegment == <<255, 225, 0, 2>>

AssembleFailure(kind) == [error |-> <<kind>>, container |-> <<>>]
MotionContainer(bytes, offset, video, opts) ==
    [error |-> <<>>,
     container |-> <<[bytes |-> bytes, videoOffset |-> offset,
                      videoLength |-> Len(video),
                      presentationTimestampMicros |->
                          IF opts.timestampMicros = <<>> THEN 0
                          ELSE opts.timestampMicros[1]]>>]

\* assemble that takes the offset before it writes the metadata segment
assemble_OffsetBeforeMetadata(photo, video, opts) ==
    IF ~IsValidJpeg(photo) THEN AssembleFailure("UnsupportedPhotoFormat")
    ELSE IF Len(video) = 0 THEN AssembleFailure("EmptyVideo")
    ELSE LET header == SubSeq(photo, 1, 2) \o XmpSegment \o SubSeq(photo, 3, EoiEnd(photo))
         IN MotionContainer(header \o video, EoiEnd(photo), video, opts)

\* the photo up to its end-of-image marker, with the metadata segment
\* written after the start-of-image marker, then the video; videoOffset is
\* the offset of the video's first byte from the start of that container
assemble(photo, video, opts) ==
    IF ~IsValidJpeg(photo) THEN AssembleFailure("UnsupportedPhotoFormat")
    ELSE IF Len(video) = 0 THEN AssembleFailure("EmptyVideo")
    ELSE LET header == SubSeq(photo, 1, 2) \o XmpSegment \o SubSeq(photo, 3, EoiEnd(photo))
         IN MotionContainer(header \o video, Len(header), video, opts)

\* the motion subcommand reads its options back from the argument list
ParsedMotionOptions(args) ==
    [timestampMicros |->
        IF IndexOf(args, "--timestamp-us", 1) = 0 THEN <<>>
        ELSE <<OptionOf(args, "--timestamp-us")>>]

\* ------------------------------------------------------ the sandboxed process
\* ultrahdr-bake itself (the Rust CLI) is not part of the worker's source; its
\* behaviour is taken from the contracts of the probe, the classifier, the
\* synthesizer and the assembler.  It sees the Map it was handed as its
\* preopened directory and the argument list.
ArgOut(args) == args[IndexOf(args, "--out", 1) + 1]
ArgIn1(args) == args[Len(args) - 1]
ArgIn2(args) == args[Len(args)]
ArgIsMotion(args) == args[2] = "motion"

\* the failure the process reports for its inputs, as a sequence: empty when
\* the inputs are acceptable
InputFailure(args, dir) ==
    IF ~Has(dir, ArgIn1(args)) \/ ~Has(dir, ArgIn2(args)) THEN <<"NoSuchFile">>
    ELSE IF ArgIsMotion(args)
         THEN assemble(BytesOf(dir[ArgIn1(args)].data), BytesOf(dir[ArgIn2(args)].data),
                       ParsedMotionOptions(args)).error
         ELSE IF ~IsJpeg(dir[ArgIn1(args)].data) \/ ~IsJpeg(dir[ArgIn2(args)].data)
              THEN <<"MalformedImage">>
              ELSE <<>>

\* the ways a run can go: "ok" writes the output and returns; "fail" reports an
\* error on stderr and ends with exit code 1; "trap" is the longjmp import
\* throwing (worker.ts:114-116)
ProcChoices(args, dir) ==
    IF InputFailure(args, dir) # <<>> THEN {"fail"} ELSE {"ok", "fail", "trap"}

OutputBytes(args) == IF ArgIsMotion(args) THEN "motionphoto" ELSE "uhdr"

Line(stream, text) == [stream |-> stream, text |-> text]

\* the message of a failed run, as the CLI prints it
FailureText(args, dir) ==
    "Error: " \o (IF InputFailure(args, dir) # <<>> THEN InputFailure(args, dir)[1]
                  ELSE "AmbiguousOrdering")

\* One run of the process: the directory it leaves, the lines it printed, the
\* exit code, what it threw (a sequence of length 0 or 1) and the message of
\* its failure (likewise).
RunProcess(args, dir, j, choice) ==
    LET info == <<Line("stdout", "Reading inputs")>>
    IN CASE choice = "ok" ->
              [dir |-> Put(dir, ArgOut(args), Node(OutputBytes(args), "proc", j)),
               lines |-> info, exit |-> 0, threw |-> <<>>, failure |-> <<>>]
         [] choice = "fail" ->
              [dir |-> dir,
               lines |-> info \o <<Line("stderr", FailureText(args, dir))>>,
               exit |-> 1, threw |-> <<>>, failure |-> <<FailureText(args, dir)>>]
         [] choice = "trap" ->
              [dir |-> dir, lines |-> info, exit |-> 0, threw |-> <<MsgLongjmp>>,
               failure |-> <<MsgLongjmp>>]

\* the two line-buffered console streams of runCli (worker.ts:89-94)
LineEvents(j, lines) == [i \in 1..Len(lines) |-> Event(j, lines[i].stream, lines[i].text)]

\* ------------------------------------------------------------ the front end
\* The language provider (lib/i18n).  The texts of the languages other than
\* English are written "<language>/<key>"; the ellipsis character is
\* written "..." as in the status texts of the worker.
Langs == {"en", "zh-CN", "zh-TW", "ja", "ko"}

EnglishText(key) ==
    CASE key = "statusIdle" -> "Idle"
      [] key = "statusPreparing" -> "Preparing..."
      [] key = "statusDone" -> "Done"
      [] key = "statusError" -> "Error"
      [] key = "statusPreparingFs" -> "Preparing WASI FS..."
      [] key = "statusFetchingWasm" -> "Fetching wasm..."
      [] key = "statusRunning" -> "Running ultrahdr-bake..."
      [] key = "statusOutputMissing" -> "Output file missing"
      [] key = "statusNeedTwoJpegs" -> "Please choose two JPEG files"
      [] key = "statusNeedPhotoVideo" -> "Please choose both photo and video"
      [] key = "wroteFile" -> "Wrote {file}"
      [] key = "logErrorPrefix" -> "[err]"

\* translations: language -> key -> text
translations ==
    LET keys ==
          {"statusIdle", "statusPreparing", "statusDone", "statusError",
           "statusPreparingFs", "statusFetchingWasm", "statusRunning",
           "statusOutputMissing", "statusNeedTwoJpegs", "statusNeedPhotoVideo",
           "wroteFile", "logErrorPrefix"}
    IN [lang \in Langs |->
          [key \in keys |-> IF lang = "en" THEN EnglishText(key) ELSE lang \o "/" \o key]]

\* statusKeyByMessage is an object literal: besides its own four members a
\* lookup finds the members every object inherits from Object.prototype,
\* whose values are functions or objects, not strings; such a value is
\* written here as a text no message and no translation is equal to.
ObjectPrototypeNames == {"constructor", "toString", "valueOf", "hasOwnProperty", "__proto__"}
InheritedMember(name) == "<Object.prototype." \o name \o ">"

statusKeyByMessage ==
    ("Preparing WASI FS..." :> "statusPreparingFs")
    @@ ("Fetching wasm..." :> "statusFetchingWasm")
    @@ ("Running ultrahdr-bake..." :> "statusRunning")
    @@ ("Output file missing" :> "statusOutputMissing")

\* statusKeyFromMessage: statusKeyByMessage[message], as a sequence: empty
\* for undefined
statusKeyFromMessage(message) ==
    IF message \in DOMAIN statusKeyByMessage THEN <<statusKeyByMessage[message]>>
    ELSE IF message \in ObjectPrototypeNames THEN <<InheritedMember(message)>>
    ELSE <<>>

\* t(key) without parameters: dict[key] ?? fallback[key] ?? key
T(lang, key) ==
    IF key \in DOMAIN translations[lang] THEN translations[lang][key]
    ELSE IF key \in DOMAIN translations["en"] THEN translations["en"][key]
    ELSE key

\* translateStatus: the text of the message's key if it has one, else the
\* message
translateStatus(lang, message) ==
    IF statusKeyFromMessage(message) # <<>> THEN T(lang, statusKeyFromMessage(message)[1])
    ELSE message

\* Language tags are read letter by letter, so a tag is a sequence of
\* one-letter strings.  LangTag is the tag of a Lang value.
LangTag(lang) ==
    CASE lang = "en" -> <<"e", "n">>
      [] lang = "zh-CN" -> <<"z", "h", "-", "C", "N">>
      [] lang = "zh-TW" -> <<"z", "h", "-", "T", "W">>
      [] lang = "ja" -> <<"j", "a">>
      [] lang = "ko" -> <<"k", "o">>

\* String.prototype.toLowerCase on the letters that occur in the tags
toLowerCase(tag) ==
    LET lowerLetter(c) ==
    CASE c = "C" -> "c" [] c = "N" -> "n" [] c = "T" -> "t" [] c = "W" -> "w"
      [] c = "H" -> "h" [] c = "Z" -> "z" [] c = "E" -> "e" [] c = "U" -> "u"
      [] c = "S" -> "s" [] c = "J" -> "j" [] c = "P" -> "p" [] c = "K" -> "k"
      [] c = "R" -> "r" [] c = "F" -> "f" [] c = "G" -> "g" [] c = "B" -> "b"
      [] OTHER -> c
    IN [i \in 1..Len(tag) |-> lowerLetter(tag[i])]

startsWith(tag, prefix) ==
    Len(tag) >= Len(prefix) /\ SubSeq(tag, 1, Len(prefix)) = prefix

\* matchLang without the toLowerCase
matchLang_CaseSensitive(value) ==
    IF value = <<>> \/ value = <<(<<>>)>> THEN <<>>
    ELSE LET lower == value[1]
         IN CASE startsWith(lower, <<"z", "h", "-", "c", "n">>)
                   \/ startsWith(lower, <<"z", "h", "-", "h", "a", "n", "s">>) -> <<"zh-CN">>
              [] startsWith(lower, <<"z", "h", "-", "t", "w">>)
                   \/ startsWith(lower, <<"z", "h", "-", "h", "a", "n", "t">>) -> <<"zh-TW">>
              [] startsWith(lower, <<"j", "a">>) -> <<"ja">>
              [] startsWith(lower, <<"k", "o">>) -> <<"ko">>
              [] startsWith(lower, <<"e", "n">>) -> <<"en">>
              [] OTHER -> <<>>

\* matchLang (part_002:392-401).  value and the result are optional: a
\* sequence of length 0 (undefined) or 1; the empty string is falsy.
matchLang(value) ==
    IF value = <<>> \/ value = <<(<<>>)>> THEN <<>>
    ELSE LET lower == toLowerCase(value[1])
         IN CASE startsWith(lower, <<"z", "h", "-", "c", "n">>)
                   \/ startsWith(lower, <<"z", "h", "-", "h", "a", "n", "s">>) -> <<"zh-CN">>
              [] startsWith(lower, <<"z", "h", "-", "t", "w">>)
                   \/ startsWith(lower, <<"z", "h", "-", "h", "a", "n", "t">>) -> <<"zh-TW">>
              [] startsWith(lower, <<"j", "a">>) -> <<"ja">>
              [] startsWith(lower, <<"k", "o">>) -> <<"ko">>
              [] startsWith(lower, <<"e", "n">>) -> <<"en">>
              [] OTHER -> <<>>

\* the first of navLangs from position i on that matchLang knows, if any
RECURSIVE FirstMatch(_, _)
FirstMatch(navLangs, i) ==
    IF i > Len(navLangs) THEN <<>>
    ELSE IF matchLang(<<navLangs[i]>>) # <<>> THEN matchLang(<<navLangs[i]>>)
    ELSE FirstMatch(navLangs, i + 1)

\* detectInitialLang (part_002:403-417): cached is what localStorage holds
\* under "ultrahdr-lang" (null: <<>>), navLangs is navigator.languages
detectInitialLang(cached, navLangs) ==
    IF matchLang(cached) # <<>> THEN matchLang(cached)[1]
    ELSE IF FirstMatch(navLangs, 1) # <<>> THEN FirstMatch(navLangs, 1)[1]
    ELSE "en"

\* The page (App.tsx).  status is the StatusEntry: a key or a text.
\* outputUrl is the blob URL, written as the payload it was made of, and
\* outputName the file name beside it; both sequences of length 0 or 1.
\* handlers are the runs of handleBake and handleMotion that got past the
\* test of the inputs, in the order of the clicks: each is at its awaits
\* ("reading") or has posted its request.  queue lists the handlers in the
\* order of their postMessage, which is the order the worker takes the
\* requests in; consumed counts the worker's events worker.onmessage has
\* been called with.  statusOf is bookkeeping of the model: the handler
\* whose click or whose job's event set the status (0: none).
StatusKey(key) == [key |-> <<key>>, text |-> <<>>]
StatusText(text) == [key |-> <<>>, text |-> <<text>>]

InitialUi ==
    [status |-> StatusKey("statusIdle"), statusOf |-> 0, log |-> <<>>,
     outputUrl |-> <<>>, outputName |-> <<>>,
     handlers |-> <<>>, queue |-> <<>>, consumed |-> 0, lang |-> "en"]

\* t("wroteFile", {file}): the {file} of the template replaced
WroteFile(lang, file) ==
    IF lang = "en" THEN "Wrote " \o file ELSE lang \o "/wroteFile " \o file

\* the requests the page posts (App.tsx:95-110 and 124-135)
AppRequest(kind) ==
    IF kind = "bake"
    THEN DeclaredRequest("bake", <<"jpegA", "jpegB">>, "ultrahdr_bake_out.jpg")
    ELSE DeclaredRequest("motion", <<"jpegA", "mp4">>, "motionphoto.jpg")

NeedKey(kind) == IF kind = "bake" THEN "statusNeedTwoJpegs" ELSE "statusNeedPhotoVideo"

\* handleBake and handleMotion up to their return or their first await
\* (App.tsx:84-93 and 113-122); ready: both inputs are chosen
handle(u, kind, ready) ==
    IF ~ready
    THEN [u EXCEPT !.status = StatusKey(NeedKey(kind)), !.statusOf = 0,
                   !.log = Append(@, T(u.lang, NeedKey(kind)))]
    ELSE [u EXCEPT !.outputUrl = <<>>, !.log = <<>>,
                   !.status = StatusKey("statusPreparing"),
                   !.statusOf = Len(u.handlers) + 1,
                   !.handlers = Append(@, [kind |-> kind, pc |-> "reading"])]

\* worker.onmessage (App.tsx:53-81) called with event e of the job that
\* handler h posted
onmessage(u, e, h) ==
    LET key == statusKeyFromMessage(e.payload)
        prefix == T(u.lang, "logErrorPrefix") \o " "
    IN CASE e.type = "status" /\ key # <<>> ->
              [u EXCEPT !.status = StatusKey(key[1]), !.statusOf = h,
                        !.log = Append(@, T(u.lang, key[1]))]
         [] e.type = "status" /\ key = <<>> ->
              [u EXCEPT !.status = StatusText(translateStatus(u.lang, e.payload)),
                        !.statusOf = h,
                        !.log = Append(@, translateStatus(u.lang, e.payload))]
         [] e.type = "stdout" -> [u EXCEPT !.log = Append(@, e.payload)]
         [] e.type = "stderr" -> [u EXCEPT !.log = Append(@, prefix \o e.payload)]
         [] e.type = "done" ->
              [u EXCEPT !.outputUrl = <<[handler |-> h, blob |-> e.payload.bytes]>>,
                        !.outputName = <<e.payload.fileName>>,
                        !.status = StatusKey("statusDone"), !.statusOf = h,
                        !.log = Append(@, WroteFile(u.lang, e.payload.fileName))]
         [] e.type = "error" ->
              [u EXCEPT !.status = StatusKey("statusError"), !.statusOf = h,
                        !.log = Append(@, prefix \o e.payload)]
         [] OTHER -> u

\* ---------------------------------------------------------------- the state

\* ---------------------------------------------------------------- the state
\* no component call is being looked at
NoCall == [op |-> "none"]

\* A job's record.  pc: "idle" (no message yet), "ignored", "fetch" and "inst"
\* (suspended at worker.ts:107 and 110), "ended".  preopen: the Map handed to
\* the process.  The rest is bookkeeping of the model: started/seen (the
\* preopened directory as the process found it), run (how the process went),
\* exit (what wasi.start returned), failure (the message of the failure that
\* ended the job's work, if any, as a sequence of length 0 or 1), atReturn
\* (rootDir.contents at the moment the process returned), fetches, starts
\* and reads (how often the job has called fetch, wasi.start and readFile).
IdleJob ==
    [pc |-> "idle", req |-> OtherRequest, args |-> <<>>, preopen |-> 0,
     started |-> FALSE, seen |-> EmptyDir, run |-> "none", exit |-> 0,
     failure |-> <<>>, atReturn |-> EmptyDir,
     fetches |-> 0, starts |-> 0, reads |-> 0]

Init ==
    /\ msgs = 0
    /\ jobs = [j \in JobIds |-> IdleJob]
    /\ fs = [root |-> 0, maps |-> [m \in MapIds |-> EmptyDir]]
    /\ events = <<>>
    /\ call = NoCall
    /\ ui = InitialUi

\* ------------------------------------------------------------------ actions
\* self.onmessage for a bake or motion request (worker.ts:140-151), up to
\* the first await of runCli (worker.ts:107) or to the catch handler:
\* status, resetFs, the length test, the writes, the argument list, the
\* construction of the preopened directory over the Map that is
\* rootDir.contents at that moment (worker.ts:95), and the second status.
StartJob(j, req) ==
    LET f1 == resetFs(fs, j)
        thrown == LengthCheck(req)
        f2 == WriteInputs(f1, req, j, 1)
    IN IF thrown # <<>>
       THEN /\ fs' = f1
            /\ events' = events \o <<StatusEvent(j, StatusPreparing)>>
                                 \o CatchHandler(j, thrown[1])
            /\ jobs' = [jobs EXCEPT ![j] = [@ EXCEPT !.pc = "ended", !.req = req,
                             !.failure = thrown]]
       ELSE /\ fs' = f2
            /\ events' = events \o <<StatusEvent(j, StatusPreparing),
                                      StatusEvent(j, StatusFetching)>>
            /\ jobs' = [jobs EXCEPT ![j] = [@ EXCEPT !.pc = "fetch", !.req = req,
                             !.args = ArgsOf(req), !.preopen = f2.root,
                             !.fetches = @ + 1]]

\* a message of type bake, taken from the set S of requests
DeliverBake(S) ==
    /\ msgs < MaxJobs
    /\ \E req \in {r \in S : r.type = "bake"} :
          /\ msgs' = msgs + 1
          /\ StartJob(msgs + 1, req)
          /\ UNCHANGED <<call, ui>>

\* a message of type motion
DeliverMotion(S) ==
    /\ msgs < MaxJobs
    /\ \E req \in {r \in S : r.type = "motion"} :
          /\ msgs' = msgs + 1
          /\ StartJob(msgs + 1, req)
          /\ UNCHANGED <<call, ui>>

\* a message of another type that is answered by a reset of the filesystem
DeliverOther_Reset(S) ==
    /\ msgs < MaxJobs
    /\ \E req \in {r \in S : r.type \notin {"bake", "motion"}} :
          /\ msgs' = msgs + 1
          /\ jobs' = [jobs EXCEPT ![msgs + 1] = [@ EXCEPT !.pc = "ignored", !.req = req]]
          /\ fs' = resetFs(fs, msgs + 1)
          /\ UNCHANGED <<events, call, ui>>

\* a message of any other type: neither branch of self.onmessage is taken
DeliverOther(S) ==
    /\ msgs < MaxJobs
    /\ \E req \in {r \in S : r.type \notin {"bake", "motion"}} :
          /\ msgs' = msgs + 1
          /\ jobs' = [jobs EXCEPT ![msgs + 1] = [@ EXCEPT !.pc = "ignored", !.req = req]]
          /\ UNCHANGED <<fs, events, call, ui>>

OnMessageBake == DeliverBake(Requests)
OnMessageMotion == DeliverMotion(Requests)
OnMessageOther == DeliverOther(Requests)

\* a resolved fetch after which runCli posts no status
FetchResolved_Silent(j) ==
    /\ jobs[j].pc = "fetch"
    /\ jobs' = [jobs EXCEPT ![j].pc = "inst"]
    /\ UNCHANGED <<msgs, fs, events, call, ui>>

\* the fetch of worker.ts:107 settles: resolved, runCli goes on to the
\* status of line 109 and to the await of line 110
FetchResolved(j) ==
    /\ jobs[j].pc = "fetch"
    /\ events' = events \o <<StatusEvent(j, StatusRunning)>>
    /\ jobs' = [jobs EXCEPT ![j].pc = "inst"]
    /\ UNCHANGED <<msgs, fs, call, ui>>

\* a rejected fetch answered by fetching again
FetchRejected_Retry(j) ==
    /\ jobs[j].pc = "fetch"
    /\ jobs' = [jobs EXCEPT ![j].fetches = @ + 1]
    /\ UNCHANGED <<msgs, fs, events, call, ui>>

\* ... or rejected, which rejects runCli and the job's promise
FetchRejected(j) ==
    /\ jobs[j].pc = "fetch"
    /\ events' = events \o CatchHandler(j, MsgFetchFailed)
    /\ jobs' = [jobs EXCEPT ![j] = [@ EXCEPT !.pc = "ended", !.failure = <<MsgFetchFailed>>]]
    /\ UNCHANGED <<msgs, fs, call, ui>>

\* WebAssembly.instantiate (worker.ts:110-118) rejects
InstantiateRejected(j) ==
    /\ jobs[j].pc = "inst"
    /\ events' = events \o CatchHandler(j, MsgInstantiateFailed)
    /\ jobs' = [jobs EXCEPT ![j] = [@ EXCEPT !.pc = "ended",
                     !.failure = <<MsgInstantiateFailed>>]]
    /\ UNCHANGED <<msgs, fs, call, ui>>

\* the tail of runCli after a run that did not throw (worker.ts:125-137)
ReadOutput(j, f, outName) ==
    LET outBytes == readFile(f, outName)
    IN IF outBytes = <<>> THEN CatchHandler(j, MsgOutputMissing)
       ELSE <<DoneEvent(j, outName, outBytes[1])>>

\* WebAssembly.instantiate resolves: wasi.start runs the process to its end
\* on the preopened Map (worker.ts:119-123); start returns the exit code,
\* which runCli discards, or lets the thrown error through; then the output
\* is read from rootDir.contents
RunAndFinish(j) ==
    /\ jobs[j].pc = "inst"
    /\ LET job == jobs[j]
           dir == fs.maps[job.preopen]
       IN \E choice \in ProcChoices(job.args, dir) :
            LET r == RunProcess(job.args, dir, j, choice)
                f1 == [fs EXCEPT !.maps[job.preopen] = r.dir]
            IN /\ fs' = f1
               /\ events' = events \o LineEvents(j, r.lines)
                     \o (IF r.threw # <<>> THEN CatchHandler(j, r.threw[1])
                         ELSE ReadOutput(j, f1, job.req.opts.outName))
               /\ jobs' = [jobs EXCEPT ![j] = [@ EXCEPT !.pc = "ended", !.started = TRUE,
                                !.seen = dir, !.run = choice, !.exit = r.exit,
                                !.failure = r.failure,
                                !.atReturn = f1.maps[f1.root],
                                !.starts = @ + 1,
                                !.reads = IF r.threw # <<>> THEN @ ELSE @ + 1]]
    /\ UNCHANGED <<msgs, call, ui>>

Next ==
    \/ OnMessageBake
    \/ OnMessageMotion
    \/ OnMessageOther
    \/ \E j \in JobIds : FetchResolved(j)
    \/ \E j \in JobIds : FetchRejected(j)
    \/ \E j \in JobIds : InstantiateRejected(j)
    \/ \E j \in JobIds : RunAndFinish(j)

Spec == Init /\ [][Next]_vars

\* The host settles every promise it made: a pending fetch and a pending
\* instantiation do not stay pending for ever.
FetchSettles(j) == FetchResolved(j) \/ FetchRejected(j)
InstantiateSettles(j) == InstantiateRejected(j) \/ RunAndFinish(j)

\* The requests of the specification with fairness: one of every path a
\* request can take through the handler (a missing `files` member, a wrong
\* number of files, two files, another type).
PathRequests ==
    { r \in Requests :
        /\ r.opts.outName = "out.jpg"
        /\ r.type = "bake" => (~r.hasFiles \/ r.files = TwoJpegs)
        /\ r.type = "motion" => (r.hasFiles /\ r.files \in {OneFile, PhotoAndVideo}) }

PathMessageBake == DeliverBake(PathRequests)
PathMessageMotion == DeliverMotion(PathRequests)
PathMessageOther == DeliverOther(PathRequests)

FairNext ==
    \/ PathMessageBake
    \/ PathMessageMotion
    \/ PathMessageOther
    \/ \E j \in JobIds : FetchResolved(j)
    \/ \E j \in JobIds : FetchRejected(j)
    \/ \E j \in JobIds : InstantiateRejected(j)
    \/ \E j \in JobIds : RunAndFinish(j)

FairSpec ==
    /\ Init
    /\ [][FairNext]_vars
    /\ \A j \in JobIds : WF_vars(FetchSettles(j)) /\ WF_vars(InstantiateSettles(j))

\* ------------------------------------------- the worker on motion requests
\* The worker with the motion requests whose inputs the assembler refuses
\* (a photo that is no JPEG, a video of length zero), under the output name
\* of the front end and under a safe input name, next to one good motion
\* request, one good bake request and a message of another type.
MotionRequests ==
    { FilesRequest("motion", NotAPhoto, "out.jpg"),
      FilesRequest("motion", NotAPhoto, "motion1.bin"),
      FilesRequest("motion", NoVideo, "out.jpg"),
      FilesRequest("motion", PhotoAndVideo, "out.jpg"),
      FilesRequest("bake", TwoJpegs, "out.jpg"),
      OtherRequest }

MotionMessageBake == DeliverBake(MotionRequests)
MotionMessageMotion == DeliverMotion(MotionRequests)
MotionMessageOther == DeliverOther(MotionRequests)

MotionNext ==
    \/ MotionMessageBake
    \/ MotionMessageMotion
    \/ MotionMessageOther
    \/ \E j \in JobIds : FetchResolved(j)
    \/ \E j \in JobIds : FetchRejected(j)
    \/ \E j \in JobIds : InstantiateRejected(j)
    \/ \E j \in JobIds : RunAndFinish(j)

MotionSpec == Init /\ [][MotionNext]_vars

\* --------------------------------------------- the classifier on its own
\* The bridge is idle; two probed buffers (two different buffers, or the
\* same buffer twice) are classified in both argument orders.
IdleBridge ==
    /\ msgs = 0
    /\ jobs = [j \in JobIds |-> IdleJob]
    /\ fs = [root |-> 0, maps |-> [m \in MapIds |-> EmptyDir]]
    /\ events = <<>>
    /\ ui = InitialUi

ClassifyInit ==
    /\ IdleBridge
    /\ \E a \in Inputs("bufA") : \E b \in Inputs("bufB") \cup {a} :
          call = [op |-> "classify", a |-> a, b |-> b, ab |-> <<>>, ba |-> <<>>]

ClassifyAB ==
    /\ call.op = "classify" /\ call.ab = <<>>
    /\ call' = [call EXCEPT !.ab = <<classify(call.a, call.b)>>]
    /\ UNCHANGED <<msgs, jobs, fs, events, ui>>

ClassifyBA ==
    /\ call.op = "classify" /\ call.ba = <<>>
    /\ call' = [call EXCEPT !.ba = <<classify(call.b, call.a)>>]
    /\ UNCHANGED <<msgs, jobs, fs, events, ui>>

ClassifyNext == ClassifyAB \/ ClassifyBA

ClassifySpec == ClassifyInit /\ [][ClassifyNext]_vars

\* -------------------------------------------- the synthesizer on its own
\* A bake request with options of the caller's choosing goes through
\* runBake's argument list to the CLI, whose synthesizer validates the
\* options, decodes the two inputs and encodes the container.
Qualities == {0, 1, 50, 100, 101}
Scales == {0, 1, 2}
BakeRequestWith(bq, gq, sc) ==
    [FilesRequest("bake", TwoJpegs, "out.jpg") EXCEPT
        !.opts.baseQ = bq, !.opts.gainmapQ = gq, !.opts.scale = sc]

SynthesizeInit ==
    /\ IdleBridge
    /\ \E bq \in Qualities, gq \in Qualities, sc \in Scales, dec \in BOOLEAN :
          call = [op |-> "synthesize",
                  req |-> BakeRequestWith(bq, gq, sc),
                  args |-> BakeArgs(BakeRequestWith(bq, gq, sc)),
                  decodable |-> dec, stage |-> "start", decodes |-> 0,
                  result |-> <<>>]

\* the options are checked first; out of range ends the call
ValidateOptions ==
    /\ call.op = "synthesize" /\ call.stage = "start"
    /\ call' = IF OptionsValid(ParsedBakeOptions(call.args))
               THEN [call EXCEPT !.stage = "validated"]
               ELSE [call EXCEPT !.stage = "done",
                                 !.result = <<Failure("InvalidOptions")>>]
    /\ UNCHANGED <<msgs, jobs, fs, events, ui>>

\* step 1 of the algorithm: both buffers are decoded to pixels
DecodeInputs ==
    /\ call.op = "synthesize" /\ call.stage = "validated"
    /\ call' = IF call.decodable
               THEN [call EXCEPT !.stage = "decoded", !.decodes = 2]
               ELSE [call EXCEPT !.stage = "done", !.decodes = 2,
                                 !.result = <<Failure("DecodeError")>>]
    /\ UNCHANGED <<msgs, jobs, fs, events, ui>>

\* steps 2 to 6: the gain map is computed and the container is written
EncodeContainer ==
    /\ call.op = "synthesize" /\ call.stage = "decoded"
    /\ call' = [call EXCEPT !.stage = "done",
                            !.result = <<[error |-> <<>>, container |-> <<"uhdr">>]>>]
    /\ UNCHANGED <<msgs, jobs, fs, events, ui>>

SynthesizeNext == ValidateOptions \/ DecodeInputs \/ EncodeContainer

SynthesizeSpec == SynthesizeInit /\ [][SynthesizeNext]_vars

\* ---------------------------------------------- the assembler on its own
\* A motion request goes through the form's conversion of the timestamp
\* field and runMotion's argument list to the CLI, whose assembler is run on
\* the bytes of the photo and of the video.
Photos ==
    {<<255, 216, 255, 217>>, <<255, 216, 7, 255, 217>>, <<255, 216, 255, 217, 0>>,
     <<255, 216, 7>>, <<0, 1>>, <<>>}
Videos == {<<>>, <<9>>, <<0, 0, 0, 24>>, <<255, 217, 5>>}
TimestampFields == {"", "0", "5"}

\* handleMotion (App.tsx:131): timestampUs ? Number(timestampUs) : undefined
AppTimestampUs(field) == IF field = "" THEN <<>> ELSE <<ParseNumber(field)>>

MotionRequestWith(ts) ==
    [FilesRequest("motion", PhotoAndVideo, "out.jpg") EXCEPT !.opts.timestampUs = ts]

AssembleInit ==
    /\ IdleBridge
    /\ \E photo \in Photos, video \in Videos, field \in TimestampFields :
          call = [op |-> "assemble",
                  req |-> MotionRequestWith(AppTimestampUs(field)),
                  args |-> MotionArgs(MotionRequestWith(AppTimestampUs(field))),
                  photo |-> photo, video |-> video, result |-> <<>>]

Assemble ==
    /\ call.op = "assemble" /\ call.result = <<>>
    /\ call' = [call EXCEPT !.result =
                    <<assemble(call.photo, call.video, ParsedMotionOptions(call.args))>>]
    /\ UNCHANGED <<msgs, jobs, fs, events, ui>>

AssembleNext == Assemble

AssembleSpec == AssembleInit /\ [][AssembleNext]_vars

\* ------------------------------------------- runBake's argument list alone
\* A bake request with options of the caller's choosing; runBake builds the
\* argument list.
BakeOptionSets ==
    [outName : OutNames, baseQ : {1, 95}, gainmapQ : {1, 95}, scale : {1, 2},
     multichannel : BOOLEAN, targetPeak : {<<>>, <<0>>, <<100>>},
     timestampUs : {<<>>}]

BakeArgsInit ==
    /\ IdleBridge
    /\ \E opts \in BakeOptionSets :
          call = [op |-> "bakeArgs",
                  req |-> [FilesRequest("bake", TwoJpegs, "out.jpg") EXCEPT !.opts = opts],
                  args |-> <<>>]

BuildBakeArgs ==
    /\ call.op = "bakeArgs" /\ call.args = <<>>
    /\ call' = [call EXCEPT !.args = BakeArgs(call.req)]
    /\ UNCHANGED <<msgs, jobs, fs, events, ui>>

BakeArgsNext == BuildBakeArgs

BakeArgsSpec == BakeArgsInit /\ [][BakeArgsNext]_vars

\* ------------------------------------------------ the page and its worker
\* The page's buttons are never disabled (App.tsx:300, 375), so a click can
\* come at any time; MaxJobs bounds the clicks that start a job and MaxLog
\* the log a click without inputs still adds to.
MaxLog == 3

Click(kind, ready) ==
    /\ ready => Len(ui.handlers) < MaxJobs
    /\ ~ready => Len(ui.log) < MaxLog
    /\ ui' = handle(ui, kind, ready)
    /\ UNCHANGED <<msgs, jobs, fs, events, call>>

ClickBake == \E ready \in BOOLEAN : Click("bake", ready)
ClickMotion == \E ready \in BOOLEAN : Click("motion", ready)

\* a handler's two reads are over and it posts its request (App.tsx:95, 124)
PostMessage(h) ==
    /\ h \in 1..Len(ui.handlers)
    /\ ui.handlers[h].pc = "reading"
    /\ ui' = [ui EXCEPT !.handlers[h].pc = "posted", !.queue = Append(@, h)]
    /\ UNCHANGED <<msgs, jobs, fs, events, call>>

\* the worker takes the next posted request
PageMessageBake ==
    /\ msgs < Len(ui.queue)
    /\ ui.handlers[ui.queue[msgs + 1]].kind = "bake"
    /\ DeliverBake({AppRequest("bake")})

PageMessageMotion ==
    /\ msgs < Len(ui.queue)
    /\ ui.handlers[ui.queue[msgs + 1]].kind = "motion"
    /\ DeliverMotion({AppRequest("motion")})

\* the page takes the worker's next event
WorkerEvent ==
    /\ ui.consumed < Len(events)
    /\ LET e == events[ui.consumed + 1]
       IN ui' = [onmessage(ui, e, ui.queue[e.job]) EXCEPT !.consumed = @ + 1]
    /\ UNCHANGED <<msgs, jobs, fs, events, call>>

\* The worker's steps after its first await are left out: no request of
\* the page gets a job past the test of req.files (worker.ts:38, 69).
PageNext ==
    \/ ClickBake
    \/ ClickMotion
    \/ \E h \in JobIds : PostMessage(h)
    \/ PageMessageBake
    \/ PageMessageMotion
    \/ WorkerEvent

PageSpec == Init /\ [][PageNext]_vars

\* ------------------------------------------- the status texts on their own
\* translateStatus called with any message in any language: first the
\* look-up of the key, then the text.
Messages ==
    {StatusPreparing, StatusFetching, StatusRunning, MsgOutputMissing, MsgTypeError,
     MsgNeedTwoJpeg, MsgNeedTwoMotion, "", "statusRunning"}
    \cup ObjectPrototypeNames

TranslateInit ==
    /\ IdleBridge
    /\ call \in [op : {"translateStatus"}, lang : Langs, message : Messages,
                  key : {<<>>}, looked : {FALSE}, result : {<<>>}]

LookUpKey ==
    /\ call.op = "translateStatus"
    /\ ~call.looked
    /\ call' = [call EXCEPT !.key = statusKeyFromMessage(call.message), !.looked = TRUE]
    /\ UNCHANGED <<msgs, jobs, fs, events, ui>>

Translate ==
    /\ call.op = "translateStatus"
    /\ call.looked
    /\ call.result = <<>>
    /\ call' = [call EXCEPT !.result = <<translateStatus(call.lang, call.message)>>]
    /\ UNCHANGED <<msgs, jobs, fs, events, ui>>

TranslateNext ==
    \/ LookUpKey
    \/ Translate

TranslateSpec == TranslateInit /\ [][TranslateNext]_vars

\* ---------------------------------------------- the language of the page
\* The language provider over the life of one browser profile: the page is
\* loaded (detectInitialLang), the user picks languages (setLang), the
\* page is closed and loaded again.  call.stored is what localStorage holds
\* under "ultrahdr-lang", call.navLangs is navigator.languages, call.lang
\* the provider's language while the page is open.  chosen (the last
\* language given to setLang) and loaded (the language is the one of the
\* page load) are bookkeeping of the model.
MaxNavLangs == 2

BrowserTag(name) ==
    CASE name = "en-US" -> <<"e", "n", "-", "U", "S">>
      [] name = "zh-Hans-CN" -> <<"z", "h", "-", "H", "a", "n", "s", "-", "C", "N">>
      [] name = "zh-TW" -> <<"z", "h", "-", "T", "W">>
      [] name = "zh-HK" -> <<"z", "h", "-", "H", "K">>
      [] name = "fr-FR" -> <<"f", "r", "-", "F", "R">>
      [] name = "ja-JP" -> <<"j", "a", "-", "J", "P">>
      [] name = "ko-KR" -> <<"k", "o", "-", "K", "R">>

BrowserTags ==
    {BrowserTag(name) :
        name \in {"en-US", "zh-Hans-CN", "zh-TW", "zh-HK", "fr-FR", "ja-JP", "ko-KR"}}

NavLists == UNION {[1..n -> BrowserTags] : n \in 0..MaxNavLangs}

\* localStorage before the page has ever stored a language: nothing, an
\* empty string, a tag of no supported language
StoredAtFirst == {<<>>, <<(<<>>)>>, <<BrowserTag("fr-FR")>>}

LangInit ==
    /\ IdleBridge
    /\ call \in [op : {"lang"}, stored : StoredAtFirst, navLangs : NavLists,
                  lang : {<<>>}, chosen : {<<>>}, loaded : {FALSE}]

\* useState(() => detectInitialLang()) (part_002:420)
PageLoad ==
    /\ call.op = "lang"
    /\ call.lang = <<>>
    /\ call' = [call EXCEPT !.lang = <<detectInitialLang(call.stored, call.navLangs)>>,
                            !.loaded = TRUE]
    /\ UNCHANGED <<msgs, jobs, fs, events, ui>>

\* setLang (part_002:422-427)
SetLang(value) ==
    /\ call.op = "lang"
    /\ call.lang # <<>>
    /\ call' = [call EXCEPT !.lang = <<value>>, !.stored = <<LangTag(value)>>,
                            !.chosen = <<value>>, !.loaded = FALSE]
    /\ UNCHANGED <<msgs, jobs, fs, events, ui>>

PageClose ==
    /\ call.op = "lang"
    /\ call.lang # <<>>
    /\ call' = [call EXCEPT !.lang = <<>>, !.loaded = FALSE]
    /\ UNCHANGED <<msgs, jobs, fs, events, ui>>

LangNext ==
    \/ PageLoad
    \/ \E value \in Langs : SetLang(value)
    \/ PageClose

LangSpec == LangInit /\ [][LangNext]_vars

\* --------------------------------------------------- vocabulary of the claims
InFlight(j) == jobs[j].pc \in {"fetch", "inst"}
Received(j) == jobs[j].pc \in {"fetch", "inst", "ended"}
IsTerminal(e) == e.type \in {"done", "error"}
EventsOf(j) == SelectSeq(events, LAMBDA e : e.job = j)
StatusesOf(j) ==
    LET st == SelectSeq(EventsOf(j), LAMBDA e : e.type = "status")
    IN [i \in 1..Len(st) |-> st[i].payload]
TerminalsOf(j) == SelectSeq(EventsOf(j), IsTerminal)
IsPrefix(s, t) == Len(s) <= Len(t) /\ \A i \in 1..Len(s) : s[i] = t[i]
StatusOrder == <<"Preparing WASI FS...", "Fetching wasm...", "Running ultrahdr-bake...">>
\* job j has posted an event and not yet its done or error event at the
\* moment just before events[k] was posted
OpenBefore(j, k) ==
    /\ \E i \in 1..(k - 1) : events[i].job = j
    /\ \A i \in 1..(k - 1) : events[i].job = j => ~IsTerminal(events[i])

\* C1: the worker has at most one job in flight: no two jobs are suspended
\* (at the fetch or at the instantiation) at the same time, so no request
\* resets the filesystem or starts while an earlier job is unfinished.
C1_OneJobInFlight ==
    \A j, k \in JobIds : (j # k /\ InFlight(j)) => ~InFlight(k)

\* C2: events of different jobs never interleave: while a job has posted an
\* event and not yet its terminal event, every event posted is that job's.
C2_NoInterleaving ==
    \A k \in 1..Len(events) : \A j \in JobIds :
        OpenBefore(j, k) => events[k].job = j

\* C3: within one job the statuses come in the fixed order Preparing,
\* Fetching, Running, none twice; a done event has all three before it; an
\* error event has a prefix of them before it; no status follows the
\* terminal event.
C3_StatusOrder ==
    \A j \in JobIds :
        LET es == EventsOf(j)
        IN /\ IsPrefix(StatusesOf(j), StatusOrder)
           /\ \A i \in 1..Len(es) :
                 /\ es[i].type = "done" => StatusesOf(j) = StatusOrder
                 /\ IsTerminal(es[i]) =>
                       \A k \in (i + 1)..Len(es) : es[k].type # "status"

\* a job has ended in done after all three statuses, and another in error
\* after the first status alone
C3_Witness ==
    \E j, k \in JobIds :
        /\ jobs[j].pc = "ended" /\ jobs[k].pc = "ended"
        /\ \E i \in 1..Len(events) : events[i].job = j /\ events[i].type = "done"
        /\ Len(StatusesOf(j)) = 3
        /\ \E i \in 1..Len(events) : events[i].job = k /\ events[i].type = "error"
        /\ Len(StatusesOf(k)) = 1

\* C4 (safety part, used in C4_ExactlyOneTerminal): a job has at most one
\* terminal event and nothing of the job follows it.
AtMostOneTerminalAndLast ==
    \A j \in JobIds :
        LET es == EventsOf(j)
        IN /\ Len(TerminalsOf(j)) <= 1
           /\ \A i \in 1..Len(es) : IsTerminal(es[i]) => i = Len(es)

\* C4: every bake or motion request received leads to exactly one terminal
\* event of its job, done or error, never both, never neither, and no event
\* of the job follows it.
C4_ExactlyOneTerminal ==
    /\ []AtMostOneTerminalAndLast
    /\ \A j \in JobIds : Received(j) ~> (Len(TerminalsOf(j)) = 1)
    /\ \A j \in JobIds : [](jobs[j].pc = "ended" => Len(TerminalsOf(j)) = 1)

\* one job has ended in done and another in error, each with its terminal event
C4_Witness ==
    \E j, k \in JobIds :
        /\ jobs[j].pc = "ended" /\ jobs[k].pc = "ended"
        /\ TerminalsOf(j) # <<>> /\ TerminalsOf(j)[1].type = "done"
        /\ TerminalsOf(k) # <<>> /\ TerminalsOf(k)[1].type = "error"

\* the two inputs of job j as the bridge writes them
OwnInputs(j) ==
    LET req == jobs[j].req
        names == IF req.type = "bake" THEN <<"input1.jpg", "input2.jpg">>
                 ELSE <<"motion1.bin", "motion2.bin">>
    IN (names[1] :> Node(req.files[1].buffer, "bridge", j))
       @@ (names[2] :> Node(req.files[2].buffer, "bridge", j))

\* C5: no state leaks between runs: when a job's process is started, the
\* directory it is started on holds exactly that job's two inputs, nothing
\* left by an earlier job, and no done event carries a file written by an
\* earlier job.
C5_NoLeakBetweenRuns ==
    /\ \A j \in JobIds : jobs[j].started => jobs[j].seen = OwnInputs(j)
    /\ \A i \in 1..Len(events) :
          events[i].type = "done" => events[i].payload.buffer.job >= events[i].job

\* a job ended in done, leaving its inputs and its output behind, and then a
\* second job was received, ran its process and ended in done too
C5_Witness ==
    /\ MaxJobs >= 2
    /\ jobs[1].started /\ jobs[2].started
    /\ Len(events) >= 2
    /\ events[Len(events)].job = 2 /\ events[Len(events)].type = "done"
    /\ \E i \in 1..Len(events) :
          /\ events[i].job = 1 /\ events[i].type = "done"
          /\ events[i].payload.buffer.by = "proc"
          /\ \A k \in 1..i : events[k].job = 1

\* C6: the bridge writes each input under a fixed safe name: the paths it
\* writes and passes as the two positional inputs are input1.jpg, input2.jpg
\* for bake and motion1.bin, motion2.bin for motion, in request order,
\* whatever strings the request holds.
C6_FixedSafeNames ==
    \A j \in JobIds :
        InFlight(j) \/ jobs[j].started =>
            LET dir == IF jobs[j].started THEN jobs[j].seen ELSE fs.maps[jobs[j].preopen]
                args == jobs[j].args
            IN /\ dir = OwnInputs(j)
               /\ <<args[Len(args) - 1], args[Len(args)]>> =
                     (IF jobs[j].req.type = "bake" THEN <<"input1.jpg", "input2.jpg">>
                      ELSE <<"motion1.bin", "motion2.bin">>)

\* a bake request and a motion request whose files carry other names, one of
\* them the safe name of the other input, have both been written
C6_Witness ==
    \E j, k \in JobIds :
        /\ InFlight(j) /\ jobs[j].req.type = "bake"
        /\ jobs[j].req.files[1].name = "input2.jpg"
        /\ jobs[k].started /\ jobs[k].req.type = "motion"
        /\ jobs[k].req.files[1].name = "../b.jpg"

\* C7: if the process returns without having produced the expected output
\* file, the job ends in the error event 'Output file missing' and posts no
\* done event.
C7_OutputMissing ==
    \A j \in JobIds :
        (jobs[j].pc = "ended" /\ jobs[j].started /\ jobs[j].run = "fail") =>
            TerminalsOf(j) = <<Event(j, "error", "Output file missing")>>

\* C8: every failure (a failed fetch or instantiation, a thrown trap, the
\* process ending with a failure) ends the job in an error event whose
\* payload is the message of that failure, unchanged.
C8_FailureVerbatim ==
    \A j \in JobIds :
        (jobs[j].pc = "ended" /\ jobs[j].failure # <<>>) =>
            TerminalsOf(j) = <<Event(j, "error", jobs[j].failure[1])>>

\* C9: a bake job whose two buffers are not JPEGs ends in an error event that
\* carries MalformedImage, and the virtual filesystem is empty once the job
\* has ended in error (until a following job writes its own inputs).
C9_MalformedImageSurfaced ==
    \A j \in JobIds :
        (/\ jobs[j].pc = "ended" /\ jobs[j].started
         /\ jobs[j].req.type = "bake" /\ jobs[j].req.files = TwoNonJpegs) =>
            /\ Len(TerminalsOf(j)) = 1
            /\ TerminalsOf(j)[1].type = "error"
            /\ TerminalsOf(j)[1].payload \in {"MalformedImage", "Error: MalformedImage"}
            /\ fs.root = j => fs.maps[fs.root] = EmptyDir

\* C10: a request of the declared shape (hdr/sdr or photo/video, no `files`)
\* is accepted: both buffers are written into the virtual filesystem and the
\* job goes on to the fetch, so that it ends, if it ends, with the process
\* started or with a failed fetch or instantiation.
C10_DeclaredShapeAccepted ==
    \A j \in JobIds :
        (Received(j) /\ ~jobs[j].req.hasFiles) =>
            LET names == IF jobs[j].req.type = "bake" THEN <<"input1.jpg", "input2.jpg">>
                         ELSE <<"motion1.bin", "motion2.bin">>
            IN /\ Has(fs.maps[j], names[1]) /\ Has(fs.maps[j], names[2])
               /\ jobs[j].pc = "ended" =>
                     \/ jobs[j].started
                     \/ jobs[j].failure \in {<<"Failed to fetch">>,
                           <<"WebAssembly.instantiate(): expected magic word">>}

\* the bytes the receiver of done event e holds now: the event's own bytes
\* when its buffer is storage of its own, else whatever the file entry whose
\* storage it shares holds now
HeldBytes(e) ==
    IF e.payload.shares = <<>> THEN e.payload.bytes
    ELSE LET dir == fs.maps[e.payload.shares[1]]
         IN IF Has(dir, e.payload.shares[2]) THEN BytesOf(dir[e.payload.shares[2]].data)
            ELSE <<>>

\* C11: a done event carries the output name of its request and a buffer of
\* the caller's own: the bytes held are, byte for byte and in length, those
\* of the file that was under outName in the filesystem when the process
\* returned, and stay so whatever is reset or written afterwards.
C11_DoneOwnsCopy ==
    \A i \in 1..Len(events) :
        events[i].type = "done" =>
            LET job == jobs[events[i].job]
                stored == BytesOf(job.atReturn[job.req.opts.outName].data)
            IN /\ events[i].payload.fileName = job.req.opts.outName
               /\ Has(job.atReturn, job.req.opts.outName)
               /\ Len(HeldBytes(events[i])) = Len(stored)
               /\ \A k \in 1..Len(stored) : HeldBytes(events[i])[k] = stored[k]

\* a job's done event delivered the file found under its outName, and a
\* process run after that has written other bytes to the same file entry
C11_Witness ==
    \E i \in 1..Len(events) :
        /\ events[i].type = "done"
        /\ LET node == events[i].payload.buffer
           IN /\ Has(fs.maps[node.job], events[i].payload.fileName)
              /\ BytesOf(fs.maps[node.job][events[i].payload.fileName].data)
                    # events[i].payload.bytes

\* C12: the bridge never retries: a job calls fetch at most once, starts the
\* process at most once and reads the output path at most once, however the
\* job goes and whatever fails, and never reads without having started or
\* starts without having fetched.
C12_NoRetry ==
    \A j \in JobIds :
        /\ jobs[j].fetches <= 1 /\ jobs[j].starts <= 1 /\ jobs[j].reads <= 1
        /\ jobs[j].reads <= jobs[j].starts /\ jobs[j].starts <= jobs[j].fetches

\* one job has ended on a rejected fetch, having fetched once and started
\* nothing, and another on a failed run of the process, having fetched,
\* started and read once each
C12_Witness ==
    \E j, k \in JobIds :
        /\ jobs[j].pc = "ended" /\ jobs[j].failure = <<"Failed to fetch">>
        /\ jobs[j].fetches = 1 /\ jobs[j].starts = 0
        /\ jobs[k].pc = "ended" /\ jobs[k].run = "fail"
        /\ jobs[k].fetches = 1 /\ jobs[k].starts = 1 /\ jobs[k].reads = 1

\* C13: classification does not depend on the argument order: classify(A, B)
\* and classify(B, A) fail with the same error or give the same pair, the
\* same buffer as hdr and the same as sdr.
C13_OrderIndependent ==
    (call.op = "classify" /\ call.ab # <<>> /\ call.ba # <<>>) =>
        /\ call.ab[1].error = call.ba[1].error
        /\ call.ab[1].pair = call.ba[1].pair

\* both orders have been classified and gave a pair whose hdr is the second
\* argument of the first call, decided by the peaks alone
C13_Witness ==
    /\ call.op = "classify" /\ call.ab # <<>> /\ call.ba # <<>>
    /\ call.ab[1].pair = <<[hdr |-> "bufB", sdr |-> "bufA"]>>
    /\ ~CarriesMetadata(call.a) /\ ~CarriesMetadata(call.b)

\* every result computed so far for the call at hand
ClassifyResults == IF call.op = "classify" THEN call.ab \o call.ba ELSE <<>>
\* the result names x as the HDR source and y as the SDR source
NamesHdr(r, x, y) == r.error = <<>> /\ r.pair = <<[hdr |-> x.bytes, sdr |-> y.bytes]>>

PeaksClose(x, y) ==
    LET p == x.probe.peakLumaEstimate
        q == y.probe.peakLumaEstimate
    IN \/ p = q
       \/ /\ p * 100 < q * (100 + RelativeThresholdPercent)
          /\ q * 100 < p * (100 + RelativeThresholdPercent)

\* C15: if neither input carries gain-map or extended-dynamic-range metadata
\* and the peak luma difference is below the relative threshold (identical
\* peaks in particular), classify fails with AmbiguousOrdering and gives no
\* pair, in either argument order.
C15_AmbiguousOrdering ==
    \A i \in 1..Len(ClassifyResults) :
        (/\ ~CarriesMetadata(call.a) /\ ~CarriesMetadata(call.b)
         /\ PeaksClose(call.a, call.b)) =>
            /\ ClassifyResults[i].error = <<"AmbiguousOrdering">>
            /\ ClassifyResults[i].pair = <<>>

\* two different buffers without metadata, one peak above the other by less
\* than the threshold, have been classified in both orders
C15_Witness ==
    /\ call.op = "classify" /\ call.ab # <<>> /\ call.ba # <<>>
    /\ call.a.bytes # call.b.bytes
    /\ ~CarriesMetadata(call.a) /\ ~CarriesMetadata(call.b)
    /\ call.a.probe.peakLumaEstimate > call.b.probe.peakLumaEstimate
    /\ PeaksClose(call.a, call.b)

\* the result is a pair that names the two inputs, one as hdr, the other as sdr
NamesBoth(r) == NamesHdr(r, call.a, call.b) \/ NamesHdr(r, call.b, call.a)

\* the policy judges x, set against y, to be HDR: x alone carries metadata,
\* or both or neither do and x's peak is materially the higher
JudgedHdr(x, y) ==
    \/ CarriesMetadata(x) /\ ~CarriesMetadata(y)
    \/ /\ CarriesMetadata(x) = CarriesMetadata(y)
       /\ x.probe.peakLumaEstimate * 100 >
             y.probe.peakLumaEstimate * (100 + RelativeThresholdPercent)

C17_OptionsBeforeDecode ==
    call.op = "synthesize" =>
        LET o == call.req.opts
            inRange == /\ o.baseQ >= 1 /\ o.baseQ <= 100
                       /\ o.gainmapQ >= 1 /\ o.gainmapQ <= 100
                       /\ o.scale >= 1
        IN /\ call.decodes > 0 => inRange
           /\ call.stage = "done" =>
                 /\ ~inRange => (call.result[1].error = <<"InvalidOptions">>
                                 /\ call.decodes = 0)
                 /\ inRange => call.result[1].error # <<"InvalidOptions">>
                 /\ (inRange /\ call.decodable) => call.result[1].error = <<>>

\* a bake with baseQuality 101 and everything else in range has ended
C17_Witness ==
    /\ call.op = "synthesize" /\ call.stage = "done"
    /\ call.req.opts.baseQ = 101 /\ call.req.opts.gainmapQ = 100
    /\ call.req.opts.scale = 1 /\ call.decodable
    /\ call.result[1].error # <<>>

\* the bytes of b at offsets off .. off + len - 1, offsets counted from 0
Slice(b, off, len) == SubSeq(b, off + 1, off + len)

\* C18: motion round trip: for every successful assemble, videoOffset +
\* videoLength is at most the length of the container, the container sliced
\* at [videoOffset, videoOffset + videoLength) is the video byte for byte,
\* and videoOffset counts the metadata segment written into the header (it
\* is the length of everything before the video in the final container).
C18_MotionRoundTrip ==
    (call.op = "assemble" /\ call.result # <<>> /\ call.result[1].error = <<>>) =>
        LET c == call.result[1].container[1]
        IN /\ c.videoLength = Len(call.video)
           /\ c.videoOffset + c.videoLength <= Len(c.bytes)
           /\ Slice(c.bytes, c.videoOffset, c.videoLength) = call.video
           /\ c.videoOffset >= EoiEnd(call.photo) + Len(XmpSegment)
           /\ \E i \in 1..c.videoOffset :
                 SubSeq(c.bytes, i, i + Len(XmpSegment) - 1) = XmpSegment

\* a photo with a byte after its end-of-image marker and a video that holds
\* the bytes of an end-of-image marker have been assembled
C18_Witness ==
    /\ call.op = "assemble" /\ call.result # <<>> /\ call.result[1].error = <<>>
    /\ call.photo = <<255, 216, 255, 217, 0>>
    /\ call.video = <<255, 217, 5>>

\* C19: the motion path validates its inputs: with a photo that is no valid
\* JPEG the process fails with UnsupportedPhotoFormat, with a video of
\* length zero with EmptyVideo, it writes no container, and the job ends in
\* an error event and in no done event.
C19_MotionInputsRejected ==
    \A j \in JobIds :
        (/\ jobs[j].pc = "ended" /\ jobs[j].started
         /\ jobs[j].req.type = "motion"
         /\ jobs[j].req.files \in {NotAPhoto, NoVideo}) =>
            /\ jobs[j].failure =
                  <<IF jobs[j].req.files = NotAPhoto THEN "Error: UnsupportedPhotoFormat"
                    ELSE "Error: EmptyVideo">>
            /\ \A path \in DOMAIN fs.maps[j] : fs.maps[j][path].by # "proc"
            /\ Len(TerminalsOf(j)) = 1
            /\ TerminalsOf(j)[1].type = "error"

\* how often `word` stands in args
Occurrences(args, word) == Cardinality({i \in 1..Len(args) : args[i] = word})

\* C20: when the motion request has no timestamp, the bridge passes no
\* --timestamp-us flag and the metadata of the output records
\* presentationTimestampMicros = 0; when it has one, 0 included, the flag is
\* passed once, with exactly that value, and the metadata records it.
C20_TimestampFlag ==
    call.op = "assemble" =>
        LET ts == call.req.opts.timestampUs
            at == IndexOf(call.args, "--timestamp-us", 1)
            made == call.result # <<>> /\ call.result[1].error = <<>>
        IN /\ ts = <<>> =>
                 /\ at = 0
                 /\ made => call.result[1].container[1].presentationTimestampMicros = 0
           /\ ts # <<>> =>
                 /\ at > 0 /\ Occurrences(call.args, "--timestamp-us") = 1
                 /\ ts = <<0>> => call.args[at + 1] = "0"
                 /\ ts = <<5>> => call.args[at + 1] = "5"
                 /\ made => call.result[1].container[1].presentationTimestampMicros = ts[1]

\* a request with the timestamp 0 has been assembled: the flag was passed
C20_Witness ==
    /\ call.op = "assemble" /\ call.result # <<>> /\ call.result[1].error = <<>>
    /\ call.req.opts.timestampUs = <<0>>
    /\ IndexOf(call.args, "--timestamp-us", 1) > 0

\* the decimal numerals of the option values of the requests
Numeral(n) ==
    CASE n = 0 -> "0" [] n = 1 -> "1" [] n = 2 -> "2" [] n = 95 -> "95" [] n = 100 -> "100"

\* C21: the argument list of runBake is the program name, --out outName,
\* --base-q baseQ, --gm-q gainmapQ, --scale scale in that order, then
\* --multichannel if and only if multichannel is true, then --target-peak
\* and its value if and only if targetPeak is defined, then the two safe
\* input names in request order; no flag names an input as HDR or SDR.
C21_BakeArgsExact ==
    (call.op = "bakeArgs" /\ call.args # <<>>) =>
        LET o == call.req.opts
        IN /\ call.args =
                 <<"ultrahdr-bake.wasm", "--out", o.outName, "--base-q", Numeral(o.baseQ),
                   "--gm-q", Numeral(o.gainmapQ), "--scale", Numeral(o.scale)>>
                 \o (IF o.multichannel = TRUE THEN <<"--multichannel">> ELSE <<>>)
                 \o (IF o.targetPeak = <<>> THEN <<>>
                     ELSE <<"--target-peak", Numeral(o.targetPeak[1])>>)
                 \o <<"input1.jpg", "input2.jpg">>
           /\ \A i \in 1..Len(call.args) : call.args[i] \notin {"--hdr", "--sdr"}

\* the list has been built for a request with multichannel true, the target
\* peak 0 and an output name that is a safe input name
C21_Witness ==
    /\ call.op = "bakeArgs" /\ call.args # <<>>
    /\ call.req.opts.multichannel /\ call.req.opts.targetPeak = <<0>>
    /\ call.req.opts.outName = "input1.jpg"

IsLine(e) == e.type \in {"stdout", "stderr"}

\* C22: within one job every stdout and stderr event comes after the status
\* 'Running ultrahdr-bake...' and before the job's done or error event: none
\* before the process is started, none after the terminal event.
C22_LinesBetween ==
    \A j \in JobIds :
        LET es == EventsOf(j)
        IN \A i \in 1..Len(es) :
              IsLine(es[i]) =>
                 /\ jobs[j].started
                 /\ \E k \in 1..(i - 1) :
                       es[k] = Event(j, "status", "Running ultrahdr-bake...")
                 /\ \A k \in 1..i : ~IsTerminal(es[k])
                 /\ \E k \in (i + 1)..Len(es) : IsTerminal(es[k])

\* a job has posted a stdout line and a stderr line and then its terminal
\* event, while another job was posting events of its own in between
C22_Witness ==
    \E j \in JobIds :
        /\ jobs[j].pc = "ended"
        /\ \E i \in 1..Len(EventsOf(j)) : EventsOf(j)[i].type = "stdout"
        /\ \E i \in 1..Len(EventsOf(j)) : EventsOf(j)[i].type = "stderr"
        /\ \E i, k \in 1..Len(events) :
              i < k /\ events[i].job # j /\ events[k].job = j /\ IsLine(events[k])

\* C23: a bake or motion request whose `files` does not hold exactly two
\* entries ends in the error event 'Need exactly two JPEG inputs' (bake) or
\* 'Need exactly two inputs (photo + video)' (motion) after the status
\* 'Preparing WASI FS...' alone: no input is written, nothing is fetched,
\* no process is started, and the filesystem has been reset.
C23_WrongFileCount ==
    \A j \in JobIds :
        (Received(j) /\ jobs[j].req.hasFiles /\ Len(jobs[j].req.files) # 2) =>
            /\ jobs[j].pc = "ended"
            /\ EventsOf(j) =
                  <<Event(j, "status", "Preparing WASI FS..."),
                    Event(j, "error",
                          IF jobs[j].req.type = "bake" THEN "Need exactly two JPEG inputs"
                          ELSE "Need exactly two inputs (photo + video)")>>
            /\ fs.maps[j] = <<>>
            /\ jobs[j].fetches = 0 /\ jobs[j].starts = 0 /\ ~jobs[j].started
            /\ fs.root >= j

\* the first job ended in done, leaving its files behind; the second, a bake
\* request with three files, has ended, and the filesystem is empty
C23_Witness ==
    /\ MaxJobs >= 2
    /\ jobs[1].pc = "ended" /\ jobs[1].started /\ fs.maps[1] # <<>>
    /\ jobs[2].pc = "ended" /\ jobs[2].req.type = "bake"
    /\ jobs[2].req.hasFiles /\ Len(jobs[2].req.files) = 3
    /\ fs.root = 2 /\ fs.maps[fs.root] = <<>>

\* C24: result integrity under overlapping requests: whatever the
\* interleaving of two jobs at the fetch and at the instantiation, the
\* process of each job reads exactly that job's own inputs, a done event of
\* a job carries the output written by that job's own process run, and a
\* job whose process wrote its output does not end in 'Output file missing'.
C24_OverlapIntegrity ==
    \A j \in JobIds :
        /\ jobs[j].started => jobs[j].seen = OwnInputs(j)
        /\ \A i \in 1..Len(events) :
              (events[i].job = j /\ events[i].type = "done") =>
                 /\ events[i].payload.buffer.by = "proc"
                 /\ events[i].payload.buffer.job = j
        /\ (jobs[j].pc = "ended" /\ jobs[j].run = "ok") =>
              TerminalsOf(j) # <<Event(j, "error", "Output file missing")>>

\* C25: whatever opts.outName is, a safe input name included, a done event
\* is emitted only if the process itself wrote the file stored under
\* outName: a file written by the bridge is never returned as the output.
C25_OnlyProcessOutput ==
    \A i \in 1..Len(events) :
        events[i].type = "done" => events[i].payload.buffer.by = "proc"

\* the step delivers a message whose type is neither bake nor motion
OtherMessageStep ==
    /\ msgs' = msgs + 1
    /\ jobs'[msgs'].req.type \notin {"bake", "motion"}

\* C26: a message whose type is neither bake nor motion has no effect on
\* the worker: its delivery posts no event, leaves the filesystem as it is
\* and changes nothing of any job, a suspended one included.
C26_OtherTypeNoEffect ==
    [][OtherMessageStep =>
          /\ events' = events
          /\ fs' = fs
          /\ \A j \in JobIds : j # msgs' => jobs'[j] = jobs[j]]_vars

\* a job is suspended, with its inputs in the filesystem, and a message of
\* another type has been delivered after the job's request
C26_Witness ==
    \E j, k \in JobIds :
        /\ j < k
        /\ InFlight(j) /\ fs.root = j /\ fs.maps[j] # <<>>
        /\ jobs[k].pc = "ignored"

\* C27: the displayed output belongs to the most recently started job: an
\* output link on the page was made from a done event of that job, and a
\* status of Error was set by an error event of that job.
C27_OutputOfLatestJob ==
    LET latest == Len(ui.handlers)
    IN /\ ui.outputUrl # <<>> => ui.outputUrl[1].handler = latest
       /\ ui.status = StatusKey("statusError") => ui.statusOf = latest

\* C28: each status text the worker emits has a key in statusKeyByMessage
\* with a text in every supported language, which translateStatus returns;
\* a message without a key in statusKeyByMessage is returned unchanged.
WorkerStatusPayloads == {StatusPreparing, StatusFetching, StatusRunning}

C28_StatusTranslated ==
    (call.op = "translateStatus" /\ call.result # <<>>) =>
        /\ call.message \in WorkerStatusPayloads =>
              /\ call.message \in DOMAIN statusKeyByMessage
              /\ \A l \in Langs : statusKeyByMessage[call.message] \in DOMAIN translations[l]
              /\ call.result[1] = translations[call.lang][statusKeyByMessage[call.message]]
        /\ call.message \notin DOMAIN statusKeyByMessage => call.result[1] = call.message

\* the supported language of a browser tag, if it has one
SupportedOf(tag) ==
    CASE tag = BrowserTag("en-US") -> <<"en">>
      [] tag = BrowserTag("zh-Hans-CN") -> <<"zh-CN">>
      [] tag = BrowserTag("zh-TW") -> <<"zh-TW">>
      [] tag = BrowserTag("ja-JP") -> <<"ja">>
      [] tag = BrowserTag("ko-KR") -> <<"ko">>
      [] OTHER -> <<>>

ExpectedFromBrowser(navLangs) ==
    LET hits == {i \in 1..Len(navLangs) : SupportedOf(navLangs[i]) # <<>>}
    IN IF hits = {} THEN "en"
       ELSE SupportedOf(navLangs[CHOOSE i \in hits : \A k \in hits : i <= k])[1]

\* C29: once a language L has been set, matchLang maps the stored value
\* back to L and the page's language is L, on every later load and whatever
\* the browser languages are; on a load with nothing stored the language
\* is that of the first browser language that has a supported language,
\* and "en" when none has.
C29_LanguageRoundTrip ==
    (call.op = "lang" /\ call.lang # <<>>) =>
        /\ call.chosen # <<>> =>
              /\ matchLang(call.stored) = call.chosen
              /\ call.lang = call.chosen
        /\ (call.chosen = <<>> /\ call.stored = <<>>) =>
              call.lang[1] = ExpectedFromBrowser(call.navLangs)

\* a page load after zh-CN was set, in a browser whose first language is
\* Japanese
C29_Witness ==
    /\ call.op = "lang"
    /\ call.loaded
    /\ call.chosen = <<"zh-CN">>
    /\ call.lang = <<"zh-CN">>
    /\ Len(call.navLangs) > 0
    /\ call.navLangs[1] = BrowserTag("ja-JP")

====
